---- MODULE Spec2Model ----
(***************************************************************************)
(* Model of lib/resolve-extra-downloads.py: parse_deps, bfs_closure,       *)
(* packages_with_source and the extras loop of main.                       *)
(*                                                                         *)
(* A Python str is modelled as a sequence of one-character strings, so     *)
(* that strip, startswith, split, slicing, endswith, the two regular       *)
(* expressions and the lexical order used by sorted() are computed         *)
(* character by character, as the interpreter does.                        *)
(***************************************************************************)
EXTENDS Integers, Sequences, FiniteSets, TLC

VARIABLES
    compile_deps,   \* parse_deps / main: dict src_dir -> set of dep src_dirs
    selected,       \* parse_deps / main: set of selected src_dirs
    closure,        \* bfs_closure: the visited set
    queue,          \* bfs_closure: the worklist (a Python list, popped at the end)
    has_source,     \* packages_with_source / main: set of package names
    cur,            \* packages_with_source: current package, or None
    extra_iter,     \* main: what is left of the iteration over sorted(extra)
    stdout,         \* main: the lines printed so far
    origin,         \* history: the extra identifier each printed line came from
    pc,             \* position of the process in main
    expanded,       \* history: how many times each node's dependencies were enqueued
    deps_file,      \* history: the lines parse_deps has read so far
    pkg_file        \* history: the lines packages_with_source has read so far

vars == <<compile_deps, selected, closure, queue, has_source, cur, extra_iter,
          stdout, origin, pc, expanded, deps_file, pkg_file>>

None == "None"

(***************************************************************************)
(* Bounds of the model.                                                    *)
(***************************************************************************)
MaxDeps == 2     \* largest dependency set of one node in the main pipeline
MaxLines == 3    \* number of lines of an input file in the parser models

(***************************************************************************)
(* Python str primitives.                                                  *)
(***************************************************************************)
\* ord() of the characters that node identifiers are made of
ord == ("-" :> 45) @@ ("/" :> 47) @@ ("a" :> 97) @@ ("b" :> 98) @@
       ("h" :> 104) @@ ("o" :> 111) @@ ("s" :> 115) @@ ("t" :> 116)

Min(a, b) == IF a <= b THEN a ELSE b

\* s < t for two str: the first differing character decides, a proper
\* prefix is smaller
StrLess(s, t) ==
    \E i \in 1..(Min(Len(s), Len(t)) + 1) :
        /\ \A j \in 1..(i - 1) : s[j] = t[j]
        /\ \/ i > Len(s) /\ i <= Len(t)
           \/ i <= Len(s) /\ i <= Len(t) /\ ord[s[i]] < ord[t[i]]

\* s.startswith(p)
StartsWith(s, p) == Len(s) >= Len(p) /\ SubSeq(s, 1, Len(p)) = p

\* s.endswith(p)
EndsWith(s, p) ==
    Len(s) >= Len(p) /\ SubSeq(s, Len(s) - Len(p) + 1, Len(s)) = p

\* s[k:]
DropFirst(s, k) == SubSeq(s, k + 1, Len(s))

\* s[:-k]
DropLast(s, k) == SubSeq(s, 1, Len(s) - k)

(***************************************************************************)
(* Node identifiers of the main pipeline.  "a-b" < "a/host" in the lexical *)
(* order although "a-b" > "a", and "a/host" is the host variant of "a".    *)
(***************************************************************************)
id_a == <<"a">>
id_a_b == <<"a", "-", "b">>
id_a_host == <<"a", "/", "h", "o", "s", "t">>

NodeIds == {id_a, id_a_b, id_a_host}

HOST == <<"/", "h", "o", "s", "t">>

\* the orders in which a set can be iterated
Perms(S) ==
    {q \in [1..Cardinality(S) -> S] : \A i, j \in 1..Cardinality(S) :
                                          i # j => q[i] # q[j]}

\* the dictionaries parse_deps can return over NodeIds
DepRelations ==
    UNION {[K -> {D \in SUBSET NodeIds : Cardinality(D) <= MaxDeps}] :
               K \in SUBSET NodeIds}

(***************************************************************************)
(* bfs_closure                                                             *)
(***************************************************************************)
\* mutant: the lookup misses every key
GetEmpty(deps, node) == {}

\* compile_deps.get(node, set())
Get(deps, node) == IF node \in DOMAIN deps THEN deps[node] ELSE {}

\* mutant: the visited guard at the top of the loop is missing
VisitedNever(node, clo) == FALSE

\* `if node in closure: continue`
Visited(node, clo) == node \in clo

\* closure.add(node)
Add(clo, node) == clo \cup {node}

\* mutant: dependencies that are not keys of the dictionary are not followed
UnvisitedKeysOnly(ds, clo) ==
    {dep \in ds : dep \notin clo /\ dep \in DOMAIN compile_deps}

\* the dependencies the inner loop appends: `if dep not in closure`
Unvisited(ds, clo) == {dep \in ds : dep \notin clo}

\* mutant: the node is read as queue[-1] and left in the list
PopPeek(q) == q

\* what queue.pop() leaves in the list
Pop(q) == SubSeq(q, 1, Len(q) - 1)

\* one iteration of `while queue:`
bfs_closure ==
    /\ pc = "bfs"
    /\ queue # <<>>
    /\ LET node == queue[Len(queue)]
           rest == Pop(queue)
       IN IF Visited(node, closure)
          THEN /\ queue' = rest
               /\ UNCHANGED <<closure, expanded>>
          ELSE /\ closure' = Add(closure, node)
               /\ \E order \in Perms(Unvisited(Get(compile_deps, node),
                                               Add(closure, node))) :
                      queue' = rest \o order
               /\ expanded' = [expanded EXCEPT ![node] = @ + 1]
    /\ UNCHANGED <<compile_deps, selected, has_source, cur, extra_iter,
                   stdout, origin, pc, deps_file, pkg_file>>

\* `while queue:` finds the list empty and bfs_closure returns closure
bfs_return ==
    /\ pc = "bfs"
    /\ queue = <<>>
    /\ pc' = "pkg"
    /\ UNCHANGED <<compile_deps, selected, closure, queue, has_source, cur,
                   extra_iter, stdout, origin, expanded, deps_file, pkg_file>>

(***************************************************************************)
(* main: the extras loop                                                   *)
(***************************************************************************)
\* extra = closure - selected
Extra(clo, sel) == clo \ sel

\* mutant: sorted(extra, reverse=True)
RECURSIVE SortedDescending(_)
SortedDescending(S) ==
    IF S = {} THEN <<>>
    ELSE LET m == CHOOSE x \in S : \A y \in S : x = y \/ StrLess(y, x)
         IN <<m>> \o SortedDescending(S \ {m})

\* sorted(extra)
RECURSIVE Sorted(_)
Sorted(S) ==
    IF S = {} THEN <<>>
    ELSE LET m == CHOOSE x \in S : \A y \in S : x = y \/ StrLess(x, y)
         IN <<m>> \o Sorted(S \ {m})

\* mutant: the host suffix is not removed
DownloadTargetNoFold(d) == d

\* dl = d[:-5] if d.endswith("/host") else d
DownloadTarget(d) == IF EndsWith(d, HOST) THEN DropLast(d, 5) ELSE d

\* `if dl in has_source`
Available(dl, hs) == dl \in hs

\* has_source = packages_with_source(pkginfo_path); extra = closure - selected;
\* the for loop starts over sorted(extra)
main_has_source ==
    /\ pc = "pkg"
    /\ has_source' \in SUBSET NodeIds
    /\ extra_iter' = Sorted(Extra(closure, selected))
    /\ pc' = "extras"
    /\ UNCHANGED <<compile_deps, selected, closure, queue, cur, stdout,
                   origin, expanded, deps_file, pkg_file>>

\* one iteration of `for d in sorted(extra):`
main_extras ==
    /\ pc = "extras"
    /\ extra_iter # <<>>
    /\ LET d == Head(extra_iter)
           dl == DownloadTarget(d)
       IN IF Available(dl, has_source)
          THEN /\ stdout' = Append(stdout, dl)
               /\ origin' = Append(origin, d)
          ELSE UNCHANGED <<stdout, origin>>
    /\ extra_iter' = Tail(extra_iter)
    /\ UNCHANGED <<compile_deps, selected, closure, queue, has_source, cur,
                   pc, expanded, deps_file, pkg_file>>

\* the for loop is exhausted and main returns
main_exit ==
    /\ pc = "extras"
    /\ extra_iter = <<>>
    /\ pc' = "done"
    /\ UNCHANGED <<compile_deps, selected, closure, queue, has_source, cur,
                   extra_iter, stdout, origin, expanded, deps_file, pkg_file>>

\* main after parse_deps has returned and bfs_closure has set up its locals
Init ==
    /\ compile_deps \in DepRelations
    /\ selected \in SUBSET NodeIds
    /\ closure = {}
    /\ queue \in Perms(selected)
    /\ has_source = {}
    /\ cur = None
    /\ extra_iter = <<>>
    /\ stdout = <<>>
    /\ origin = <<>>
    /\ pc = "bfs"
    /\ expanded = [n \in NodeIds |-> 0]
    /\ deps_file = <<>>
    /\ pkg_file = <<>>

Next == bfs_closure \/ bfs_return \/ main_has_source \/ main_extras \/ main_exit

Spec == Init /\ [][Next]_vars

(***************************************************************************)
(* More Python str primitives, used by the two parsers.                    *)
(***************************************************************************)
\* the characters str.strip(), str.split() and the regex class \s consider
Whitespace == {" ", "\t", "\n", "\r", "\f"}

Max(S) == CHOOSE x \in S : \A y \in S : y <= x

\* s.strip()
RECURSIVE Strip(_)
Strip(s) ==
    IF s = <<>> THEN s
    ELSE IF s[1] \in Whitespace THEN Strip(Tail(s))
    ELSE IF s[Len(s)] \in Whitespace THEN Strip(SubSeq(s, 1, Len(s) - 1))
    ELSE s

\* mutant: always two parts, as s.partition(sep) gives head and tail
Split1Padded(s, sep) ==
    LET at == {i \in 1..Len(s) : s[i] = sep}
    IN IF at = {} THEN <<s, <<>> >>
       ELSE LET i == CHOOSE j \in at : \A k \in at : j <= k
            IN <<SubSeq(s, 1, i - 1), SubSeq(s, i + 1, Len(s))>>

\* s.split(sep, 1) for a one-character sep
Split1(s, sep) ==
    LET at == {i \in 1..Len(s) : s[i] = sep}
    IN IF at = {} THEN <<s>>
       ELSE LET i == CHOOSE j \in at : \A k \in at : j <= k
            IN <<SubSeq(s, 1, i - 1), SubSeq(s, i + 1, Len(s))>>

\* set(s.split()): the maximal runs of non-whitespace characters
Tokens(s) ==
    {SubSeq(s, i, j) : <<i, j>> \in
        {ij \in (1..Len(s)) \X (1..Len(s)) :
            /\ ij[1] <= ij[2]
            /\ \A k \in ij[1]..ij[2] : s[k] \notin Whitespace
            /\ ij[1] = 1 \/ s[ij[1] - 1] \in Whitespace
            /\ ij[2] = Len(s) \/ s[ij[2] + 1] \in Whitespace}}

\* the separator-joined concatenation of a list of str
RECURSIVE Join(_, _)
Join(ss, sep) ==
    IF ss = <<>> THEN <<>>
    ELSE IF Len(ss) = 1 THEN ss[1]
    ELSE ss[1] \o sep \o Join(Tail(ss), sep)

NL == <<"\n">>

(***************************************************************************)
(* parse_deps                                                              *)
(***************************************************************************)
SELECTED_MARK == <<"S", "E", "L", "E", "C", "T", "E", "D", ":">>
DEPS_MARK == <<"D", "E", "P", "S", ":">>

\* the lines of the dump: SELECTED:<node-id> and DEPS:<node-id>:<dep ids>
SelectedLine(pad, n) == pad \o SELECTED_MARK \o n \o NL
DepsLine(pad, n, ds, sep) ==
    pad \o DEPS_MARK \o n \o <<":">> \o Join(ds, sep) \o NL

\* the lines a dependency dump is made of here, each with what it says
DepsInputs ==
    { [kind |-> "selected", node |-> id_a, deps |-> {},
       text |-> SelectedLine(<<>>, id_a)],
      [kind |-> "selected", node |-> id_a_host, deps |-> {},
       text |-> SelectedLine(<<" ", "\t">>, id_a_host)],
      [kind |-> "deps", node |-> id_a, deps |-> {id_a_b, id_a_host},
       text |-> DepsLine(<<>>, id_a, <<id_a_b, id_a_host>>, <<" ">>)],
      [kind |-> "deps", node |-> id_a, deps |-> {id_a_host},
       text |-> DepsLine(<<" ">>, id_a, <<id_a_host>>, <<" ">>)],
      [kind |-> "deps", node |-> id_a, deps |-> {},
       text |-> DepsLine(<<>>, id_a, <<>>, <<" ">>)],
      [kind |-> "deps", node |-> id_a_b, deps |-> {id_a},
       text |-> DepsLine(<<>>, id_a_b, <<id_a, id_a>>, <<" ", " ">>)],
      [kind |-> "malformed", node |-> id_a_b, deps |-> {},
       text |-> DEPS_MARK \o id_a_b \o NL],
      [kind |-> "malformed", node |-> id_a, deps |-> {},
       text |-> DEPS_MARK \o id_a],
      [kind |-> "other", node |-> id_a, deps |-> {},
       text |-> <<"#">> \o DepsLine(<<>>, id_a, <<id_a_b>>, <<" ">>)],
      [kind |-> "other", node |-> id_a, deps |-> {},
       text |-> NL] }

\* mutant: a later DEPS line is merged into the earlier record
PutMerged(d, k, v) ==
    [x \in DOMAIN d \cup {k} |->
        IF x = k THEN (IF k \in DOMAIN d THEN d[k] \cup v ELSE v) ELSE d[x]]

\* d[k] = v
Put(d, k, v) == [x \in DOMAIN d \cup {k} |-> IF x = k THEN v ELSE d[x]]

\* the body of `for line in f:` on the line r.text
parse_deps(r) ==
    /\ pc = "parse_deps"
    /\ Len(deps_file) < MaxLines
    /\ deps_file' = Append(deps_file, r)
    /\ LET line == Strip(r.text)
       IN IF StartsWith(line, SELECTED_MARK)
          THEN /\ selected' = selected \cup {DropFirst(line, 9)}
               /\ UNCHANGED compile_deps
          ELSE IF StartsWith(line, DEPS_MARK)
          THEN LET parts == Split1(DropFirst(line, 5), ":")
               IN IF Len(parts) = 2
                  THEN /\ compile_deps' =
                              Put(compile_deps, parts[1], Tokens(parts[2]))
                       /\ UNCHANGED selected
                  ELSE UNCHANGED <<compile_deps, selected>>
          ELSE UNCHANGED <<compile_deps, selected>>
    /\ UNCHANGED <<closure, queue, has_source, cur, extra_iter, stdout,
                   origin, pc, expanded, pkg_file>>

\* the end of the file: parse_deps returns compile_deps, selected
parse_deps_return ==
    /\ pc = "parse_deps"
    /\ pc' = "parsed"
    /\ UNCHANGED <<compile_deps, selected, closure, queue, has_source, cur,
                   extra_iter, stdout, origin, expanded, deps_file, pkg_file>>

\* parse_deps before its first line
InitParseDeps ==
    /\ compile_deps = [x \in {} |-> {}]
    /\ selected = {}
    /\ closure = {}
    /\ queue = <<>>
    /\ has_source = {}
    /\ cur = None
    /\ extra_iter = <<>>
    /\ stdout = <<>>
    /\ origin = <<>>
    /\ pc = "parse_deps"
    /\ expanded = [n \in NodeIds |-> 0]
    /\ deps_file = <<>>
    /\ pkg_file = <<>>

NextParseDeps == (\E r \in DepsInputs : parse_deps(r)) \/ parse_deps_return

SpecParseDeps == InitParseDeps /\ [][NextParseDeps]_vars

(***************************************************************************)
(* packages_with_source                                                    *)
(***************************************************************************)
MAKEFILE_HEAD ==
    <<"S", "o", "u", "r", "c", "e", "-", "M", "a", "k", "e", "f", "i", "l",
      "e", ":", " ", "p", "a", "c", "k", "a", "g", "e", "/">>
MAKEFILE_TAIL == <<"/", "M", "a", "k", "e", "f", "i", "l", "e">>
SOURCE_HEAD == <<"S", "o", "u", "r", "c", "e", ":", " ">>
id_a_Makefile == <<"a", "/", "M", "a", "k", "e", "f", "i", "l", "e">>

\* re.match(r"Source-Makefile: package/(.+)/Makefile", line): group 1, or
\* None.  The group is greedy: it ends before the last "/Makefile" that
\* follows at least one character, none of them a newline.
MatchMakefile(line) ==
    LET from == Len(MAKEFILE_HEAD) + 1
        ends == {k \in from..Len(line) :
                    /\ \A j \in from..k : line[j] # "\n"
                    /\ k + Len(MAKEFILE_TAIL) <= Len(line)
                    /\ SubSeq(line, k + 1, k + Len(MAKEFILE_TAIL)) = MAKEFILE_TAIL}
    IN IF StartsWith(line, MAKEFILE_HEAD) /\ ends # {}
       THEN SubSeq(line, from, Max(ends))
       ELSE None

\* re.match(r"Source: (\S+)", line) matches
MatchSource(line) ==
    /\ StartsWith(line, SOURCE_HEAD)
    /\ Len(line) > Len(SOURCE_HEAD)
    /\ line[Len(SOURCE_HEAD) + 1] \notin Whitespace

\* the lines a .packageinfo file is made of here, each with what it says
PkgInputs ==
    { [kind |-> "context", name |-> id_a,
       text |-> MAKEFILE_HEAD \o id_a \o MAKEFILE_TAIL \o NL],
      [kind |-> "context", name |-> id_a_b,
       text |-> MAKEFILE_HEAD \o id_a_b \o MAKEFILE_TAIL \o NL],
      [kind |-> "context", name |-> id_a_host,
       text |-> MAKEFILE_HEAD \o id_a_host \o MAKEFILE_TAIL \o NL],
      [kind |-> "context", name |-> id_a_Makefile,
       text |-> MAKEFILE_HEAD \o id_a_Makefile \o MAKEFILE_TAIL \o NL],
      [kind |-> "source", name |-> None,
       text |-> SOURCE_HEAD \o <<"a", ".", "t", "a", "r">> \o NL],
      [kind |-> "other", name |-> None,
       text |-> SOURCE_HEAD \o NL],
      [kind |-> "other", name |-> None,
       text |-> <<" ">> \o SOURCE_HEAD \o <<"a">> \o NL],
      [kind |-> "other", name |-> None,
       text |-> <<"P", "a", "c", "k", "a", "g", "e", ":", " ", "a">> \o NL],
      [kind |-> "other", name |-> None,
       text |-> MAKEFILE_HEAD \o MAKEFILE_TAIL \o NL] }

\* mutant: the current package is set by the first context line only
NewCurFirstOnly(old, name) == IF old = None THEN name ELSE old

\* cur = m.group(1)
NewCur(old, name) == name

\* the body of `for line in f:` on the line r.text
packages_with_source(r) ==
    /\ pc = "packages_with_source"
    /\ Len(pkg_file) < MaxLines
    /\ pkg_file' = Append(pkg_file, r)
    /\ LET line == r.text
           m == MatchMakefile(line)
       IN IF m # None
          THEN /\ cur' = NewCur(cur, m)
               /\ UNCHANGED has_source
          ELSE IF MatchSource(line) /\ cur # None
          THEN /\ has_source' = has_source \cup {cur}
               /\ UNCHANGED cur
          ELSE UNCHANGED <<has_source, cur>>
    /\ UNCHANGED <<compile_deps, selected, closure, queue, extra_iter,
                   stdout, origin, pc, expanded, deps_file>>

\* the end of the file: packages_with_source returns has_source
packages_with_source_return ==
    /\ pc = "packages_with_source"
    /\ pc' = "returned"
    /\ UNCHANGED <<compile_deps, selected, closure, queue, has_source, cur,
                   extra_iter, stdout, origin, expanded, deps_file, pkg_file>>

\* packages_with_source before its first line
InitPackages ==
    /\ compile_deps = [x \in {} |-> {}]
    /\ selected = {}
    /\ closure = {}
    /\ queue = <<>>
    /\ has_source = {}
    /\ cur = None
    /\ extra_iter = <<>>
    /\ stdout = <<>>
    /\ origin = <<>>
    /\ pc = "packages_with_source"
    /\ expanded = [n \in NodeIds |-> 0]
    /\ deps_file = <<>>
    /\ pkg_file = <<>>

NextPackages ==
    (\E r \in PkgInputs : packages_with_source(r)) \/ packages_with_source_return

SpecPackages == InitPackages /\ [][NextPackages]_vars

(***************************************************************************)
(* Reference notions the properties are stated with.                       *)
(***************************************************************************)
\* m -> n is a dependency edge of the relation R
Edge(R, m, n) == m \in DOMAIN R /\ n \in R[m]

\* the nodes reachable from S by zero or more dependency edges of R
Reachable(S, R) ==
    {n \in NodeIds :
        \E k \in 1..Cardinality(NodeIds) : \E p \in [1..k -> NodeIds] :
            /\ p[1] \in S
            /\ p[k] = n
            /\ \A i \in 1..(k - 1) : Edge(R, p[i], p[i + 1])}

\* the elements of a list
Range(q) == {q[i] : i \in 1..Len(q)}

\* d with a trailing "/host" removed, d itself otherwise
Fold(d) ==
    LET stems == {x \in {SubSeq(d, 1, k) : k \in 0..Len(d)} : x \o HOST = d}
    IN IF stems = {} THEN d ELSE CHOOSE x \in stems : TRUE

\* s is q with the elements that do not satisfy keep left out, in q's order
RECURSIVE Filter(_, _)
Filter(q, keep) ==
    IF q = <<>> THEN <<>>
    ELSE IF Head(q) \in keep THEN <<Head(q)>> \o Filter(Tail(q), keep)
    ELSE Filter(Tail(q), keep)

\* the enumeration of the set S in ascending lexical order
Ascending(S) ==
    CHOOSE q \in Perms(S) : \A i \in 1..(Len(q) - 1) : StrLess(q[i], q[i + 1])

(***************************************************************************)
(* Properties of bfs_closure and of the extras loop (specification Spec).  *)
(***************************************************************************)
\* C1: when bfs_closure has returned, closure is exactly the set of nodes
\* reachable from selected by zero or more dependency edges, whatever the
\* order of the worklist and of the iteration over the dependencies was.
C1_ClosureIsReachableSet ==
    pc # "bfs" => closure = Reachable(selected, compile_deps)

\* C1 witness: a cyclic relation with a self-loop, a reachable leaf that is
\* no key and an unreachable node, after bfs_closure has returned.
C1_Witness ==
    /\ pc = "pkg"
    /\ selected = {id_a}
    /\ compile_deps = (id_a :> {id_a, id_a_b}) @@ (id_a_host :> {id_a})
    /\ closure = {id_a, id_a_b}

\* C2 (as stated): no identifier printed by the extras loop is a member of
\* the selected set.
C2_PrintedNotSelected ==
    \A i \in 1..Len(stdout) : stdout[i] \notin selected

\* C3 (as stated): each printed identifier is lexically greater than or
\* equal to the one printed before it.
C3_OutputSorted ==
    \A i \in 1..(Len(stdout) - 1) : ~StrLess(stdout[i + 1], stdout[i])

\* C3 (amended): the lines are printed in strictly ascending lexical order
\* of the extra identifiers they come from, each line being the download
\* target of its extra identifier.
C3_OutputInOrderOfOrigin ==
    /\ Len(origin) = Len(stdout)
    /\ \A i \in 1..Len(stdout) : stdout[i] = Fold(origin[i])
    /\ \A i \in 1..(Len(origin) - 1) : StrLess(origin[i], origin[i + 1])

\* C3 witness: two lines were printed, and the second is lexically smaller
\* than the first.
C3_Witness ==
    /\ pc = "done"
    /\ Len(stdout) = 2
    /\ StrLess(stdout[2], stdout[1])

C6_ExpandedAtMostOnce ==
    /\ [](\A n \in NodeIds : expanded[n] <= 1)
    /\ [][(pc = "bfs" /\ queue # <<>> /\ queue[Len(queue)] \in closure)
            => /\ queue' = SubSeq(queue, 1, Len(queue) - 1)
               /\ closure' = closure
               /\ expanded' = expanded]_vars

\* C6 witness: a node that was expanded is at the end of the list again,
\* another copy of it still behind it.
C6_Witness ==
    /\ pc = "bfs"
    /\ Len(queue) >= 1
    /\ queue[Len(queue)] \in closure
    /\ expanded[queue[Len(queue)]] = 1
    /\ \E n \in NodeIds : Cardinality({i \in 1..Len(queue) : queue[i] = n}) >= 2

\* C10: at the start of every iteration of the worklist loop, closure and
\* queue hold reachable nodes only, every selected node is in closure or in
\* queue, and every direct dependency of a node of closure is in closure or
\* in queue; with the queue empty, closure is closed under the relation.
C10_WorklistInvariant ==
    pc = "bfs" =>
        /\ closure \cup Range(queue) \subseteq Reachable(selected, compile_deps)
        /\ selected \subseteq closure \cup Range(queue)
        /\ \A m \in closure : \A n \in NodeIds :
               Edge(compile_deps, m, n) => n \in closure \cup Range(queue)
        /\ queue = <<>> =>
               \A m \in closure : \A n \in NodeIds :
                   Edge(compile_deps, m, n) => n \in closure

\* C10 witness: in the middle of the loop a dependency of a visited node is
\* still waiting in the queue.
C10_Witness ==
    /\ pc = "bfs"
    /\ closure # {}
    /\ \E m \in closure : \E n \in Range(queue) :
           Edge(compile_deps, m, n) /\ n \notin closure

(***************************************************************************)
(* Properties of parse_deps (specification SpecParseDeps).                 *)
(***************************************************************************)
\* the positions of the well-formed DEPS lines for node n read so far
DepsLinesFor(n) ==
    {i \in 1..Len(deps_file) :
        deps_file[i].kind = "deps" /\ deps_file[i].node = n}

\* C7: after any sequence of lines, a node has a record exactly if a
\* well-formed DEPS line for it was read, and the record is the dependency
\* list of the last such line; a DEPS line for n leaves the selected set and
\* the records of the other nodes as they were.
C7_LastDepsLineWins ==
    /\ [](\A n \in NodeIds \cup DOMAIN compile_deps :
            IF DepsLinesFor(n) = {} THEN n \notin DOMAIN compile_deps
            ELSE /\ n \in DOMAIN compile_deps
                 /\ compile_deps[n] = deps_file[Max(DepsLinesFor(n))].deps)
    /\ [][(Len(deps_file') = Len(deps_file) + 1
            /\ deps_file'[Len(deps_file')].kind = "deps")
          => /\ selected' = selected
             /\ \A m \in (DOMAIN compile_deps \cup DOMAIN compile_deps')
                            \ {deps_file'[Len(deps_file')].node} :
                    /\ m \in DOMAIN compile_deps
                    /\ m \in DOMAIN compile_deps'
                    /\ compile_deps'[m] = compile_deps[m]]_vars

\* C7 witness: a second DEPS line for "a" with a smaller list has replaced
\* the first, the record of "a-b" still in place.
C7_Witness ==
    /\ Len(deps_file) = 3
    /\ deps_file[1].kind = "deps" /\ deps_file[1].node = id_a
    /\ deps_file[1].deps = {id_a_b, id_a_host}
    /\ deps_file[2].kind = "deps" /\ deps_file[2].node = id_a_b
    /\ deps_file[3].kind = "deps" /\ deps_file[3].node = id_a
    /\ deps_file[3].deps = {id_a_host}
    /\ compile_deps = (id_a :> {id_a_host}) @@ (id_a_b :> {id_a})

\* C8: a line that has neither marker, and a DEPS line without a second
\* colon, leaves compile_deps and selected exactly as they were.
C8_MalformedLinesIgnored ==
    [][(Len(deps_file') = Len(deps_file) + 1
         /\ deps_file'[Len(deps_file')].kind \in {"malformed", "other"})
       => (compile_deps' = compile_deps /\ selected' = selected)]_vars

\* C8 witness: `DEPS:a-b` was read after a SELECTED line and a DEPS line, and
\* "a-b" has no record.
C8_Witness ==
    /\ Len(deps_file) = 3
    /\ deps_file[3].kind = "malformed" /\ deps_file[3].node = id_a_b
    /\ selected = {id_a}
    /\ compile_deps = (id_a :> {id_a_b, id_a_host})

(***************************************************************************)
(* Properties of packages_with_source (specification SpecPackages).        *)
(***************************************************************************)
\* the positions of the context lines read before line i
ContextsBefore(i) == {j \in 1..(i - 1) : pkg_file[j].kind = "context"}

\* C9: after any sequence of lines, has_source holds exactly the names p such
\* that some source-declaration line was read whose most recent preceding
\* context line names p.
C9_SourceUnderLatestContext ==
    has_source =
        {pkg_file[Max(ContextsBefore(i))].name :
            i \in {k \in 1..Len(pkg_file) :
                      pkg_file[k].kind = "source" /\ ContextsBefore(k) # {}}}

\* C9 witness: a source declaration before any context line added nothing,
\* and one under the context line of "a/host" added "a/host".
C9_Witness ==
    /\ Len(pkg_file) = 3
    /\ pkg_file[1].kind = "source"
    /\ pkg_file[2].kind = "context" /\ pkg_file[2].name = id_a_host
    /\ pkg_file[3].kind = "source"
    /\ has_source = {id_a_host}
    /\ cur = id_a_host

(***************************************************************************)
(* Termination of bfs_closure.  main is one sequential process that is     *)
(* never suspended: a step that can be taken is taken.                     *)
(***************************************************************************)
LiveSpec == Spec /\ WF_vars(Next)

\* C4: the worklist loop eventually finds its queue empty and returns.
C4_BfsTerminates == <>(pc # "bfs" /\ queue = <<>>)

\* C4 witness: bfs_closure has returned on a relation with a self-loop and
\* a cycle through two nodes.
C4_Witness ==
    /\ pc = "pkg"
    /\ queue = <<>>
    /\ Edge(compile_deps, id_a, id_a)
    /\ Edge(compile_deps, id_a, id_a_b)
    /\ Edge(compile_deps, id_a_b, id_a)
    /\ id_a \in closure

====
